---- MODULE Spec2Model ----
(***************************************************************************)
(* Model of the hexdump / diff core of binwalk (src/hexdiff.rs):           *)
(* classify_position, classify_block, render_line, render_header and the   *)
(* stream driver run.                                                      *)
(*                                                                         *)
(* A line of text is held by its parts (the digits of its offset prefix,   *)
(* and the hex pairs and glyphs of every column).  A display piece carries *)
(* the color of its class; the process-wide switch that turns the colors   *)
(* off when stdout is no terminal is not modelled.  usize is scaled to     *)
(* UsizeBits bits.                                                         *)
(***************************************************************************)
EXTENDS Integers, Sequences, FiniteSets, TLC

\* ---------------------------------------------------------------- bounds
UsizeBits == 16
MaxFiles == 3
MaxTotal == 3
RepeatLen == 4
MaxBlock == 2

\* the last printable character, '~'
LastPrintable == 126
USIZE_MAX == 2^UsizeBits - 1
ISIZE_MAX == 2^(UsizeBits - 1) - 1
\* the bytes of the buffers: run only compares bytes and tests whether they
\* are printable, so the buffers hold the last printable byte and the first
\* byte after it
ByteSet == {LastPrintable, LastPrintable + 1}
\* the bytes classify_position is called on: ByteSet and the letters A, B, C
ProbeBytes == ByteSet \cup {LastPrintable - 61, LastPrintable - 60, LastPrintable - 59}
BlockSet == (0..MaxBlock) \cup {USIZE_MAX}

\* ------------------------------------------------------------ primitives
None == [some |-> FALSE, v |-> 0]
Some(b) == [some |-> TRUE, v |-> b]
NoString == [some |-> FALSE, v |-> [prefix |-> <<>>, columns |-> <<>>]]
SomeString(s) == [some |-> TRUE, v |-> s]

FileNames == <<"f1", "f2", "f3", "f4", "f5">>

HexChars == <<"0", "1", "2", "3", "4", "5", "6", "7",
              "8", "9", "A", "B", "C", "D", "E", "F">>

\* The printable characters 0x21..0x7E in order; the piece "GRAVE" stands for
\* the character 0x60, which a TLA+ string cannot hold.
AsciiChars ==
    <<
       "!", "\"", "#", "$", "%", "&", "'", "(", ")", "*", "+", ",",
       "-", ".", "/", "0", "1", "2", "3", "4", "5", "6", "7", "8",
       "9", ":", ";", "<", "=", ">", "?", "@", "A", "B", "C", "D",
       "E", "F", "G", "H", "I", "J", "K", "L", "M", "N", "O", "P",
       "Q", "R", "S", "T", "U", "V", "W", "X", "Y", "Z", "[", "\\",
       "]", "^", "_", "GRAVE", "a", "b", "c", "d", "e", "f", "g", "h",
       "i", "j", "k", "l", "m", "n", "o", "p", "q", "r", "s", "t",
       "u", "v", "w", "x", "y", "z", "{", "|", "}", "~"
    >>

RECURSIVE HexDigits(_)
HexDigits(n) ==
    IF n < 16 THEN <<HexChars[n + 1]>>
    ELSE HexDigits(n \div 16) \o <<HexChars[(n % 16) + 1]>>

RECURSIVE ZeroPad(_, _)
ZeroPad(s, width) == IF Len(s) >= width THEN s ELSE ZeroPad(<<"0">> \o s, width)

FormatHex(n, width) == ZeroPad(HexDigits(n), width)

saturating_add(a, b) == IF a + b > USIZE_MAX THEN USIZE_MAX ELSE a + b

get(data, absolute) ==
    IF absolute < Len(data) THEN Some(data[absolute + 1]) ELSE None

is_printable_ascii(b) == b >= 33 /\ b <= LastPrintable

\* --------------------------------------------------- positional classifier
RECURSIVE Contains(_, _)
Contains(unique, v) ==
    IF unique = <<>> THEN FALSE
    ELSE Head(unique) = v \/ Contains(Tail(unique), v)

RECURSIVE UniquePush(_, _)
UniquePush(unique, values) ==
    IF values = <<>> THEN unique
    ELSE IF ~Contains(unique, Head(values))
         THEN UniquePush(Append(unique, Head(values)), Tail(values))
         ELSE UniquePush(unique, Tail(values))

\* classify_position testing for Red before Green
classify_position_red_first(values) ==
    LET unique == UniquePush(<<>>, values)
    IN  IF Len(unique) = Len(values) THEN "Red"
        ELSE IF Len(unique) <= 1 THEN "Green"
        ELSE "Blue"

\* classify_position leaving absent values out of the distinct values
classify_position_skip_absent(values) ==
    LET unique == UniquePush(<<>>, SelectSeq(values, LAMBDA v : v.some))
    IN  IF Len(unique) <= 1 THEN "Green"
        ELSE IF Len(unique) = Len(values) THEN "Red"
        ELSE "Blue"

classify_position(values) ==
    LET unique == UniquePush(<<>>, values)
    IN  IF Len(unique) <= 1 THEN "Green"
        ELSE IF Len(unique) = Len(values) THEN "Red"
        ELSE "Blue"

\* files is a sequence of byte sequences
classify_block(files, offset, block) ==
    [i \in 1..block |->
        classify_position([f \in 1..Len(files) |-> get(files[f], offset + (i - 1))])]

HasClass(classes, c) == \E i \in 1..Len(classes) : classes[i] = c

\* should_display_flags pairing the green and blue filters with the wrong flags
should_display_flags_swapped(has_red, has_green, has_blue, o) ==
    (o.show_red /\ has_red) \/ (o.show_green /\ has_blue) \/ (o.show_blue /\ has_green)

should_display_flags(has_red, has_green, has_blue, o) ==
    (o.show_red /\ has_red) \/ (o.show_green /\ has_green) \/ (o.show_blue /\ has_blue)

\* ------------------------------------------------------------ line renderer
ClassColor(c) == CASE c = "Green" -> "green" [] c = "Blue" -> "blue" [] c = "Red" -> "red"

\* a colored piece of text: the piece and the color its class gives it
to_colored_hex(class, piece) == [c |-> ClassColor(class), t |-> piece]

\* format!("{b:02X}") of every byte value
HexPairs ==
    <<
       "00", "01", "02", "03", "04", "05", "06", "07", "08", "09", "0A", "0B", "0C", "0D", "0E", "0F",
       "10", "11", "12", "13", "14", "15", "16", "17", "18", "19", "1A", "1B", "1C", "1D", "1E", "1F",
       "20", "21", "22", "23", "24", "25", "26", "27", "28", "29", "2A", "2B", "2C", "2D", "2E", "2F",
       "30", "31", "32", "33", "34", "35", "36", "37", "38", "39", "3A", "3B", "3C", "3D", "3E", "3F",
       "40", "41", "42", "43", "44", "45", "46", "47", "48", "49", "4A", "4B", "4C", "4D", "4E", "4F",
       "50", "51", "52", "53", "54", "55", "56", "57", "58", "59", "5A", "5B", "5C", "5D", "5E", "5F",
       "60", "61", "62", "63", "64", "65", "66", "67", "68", "69", "6A", "6B", "6C", "6D", "6E", "6F",
       "70", "71", "72", "73", "74", "75", "76", "77", "78", "79", "7A", "7B", "7C", "7D", "7E", "7F",
       "80", "81", "82", "83", "84", "85", "86", "87", "88", "89", "8A", "8B", "8C", "8D", "8E", "8F",
       "90", "91", "92", "93", "94", "95", "96", "97", "98", "99", "9A", "9B", "9C", "9D", "9E", "9F",
       "A0", "A1", "A2", "A3", "A4", "A5", "A6", "A7", "A8", "A9", "AA", "AB", "AC", "AD", "AE", "AF",
       "B0", "B1", "B2", "B3", "B4", "B5", "B6", "B7", "B8", "B9", "BA", "BB", "BC", "BD", "BE", "BF",
       "C0", "C1", "C2", "C3", "C4", "C5", "C6", "C7", "C8", "C9", "CA", "CB", "CC", "CD", "CE", "CF",
       "D0", "D1", "D2", "D3", "D4", "D5", "D6", "D7", "D8", "D9", "DA", "DB", "DC", "DD", "DE", "DF",
       "E0", "E1", "E2", "E3", "E4", "E5", "E6", "E7", "E8", "E9", "EA", "EB", "EC", "ED", "EE", "EF",
       "F0", "F1", "F2", "F3", "F4", "F5", "F6", "F7", "F8", "F9", "FA", "FB", "FC", "FD", "FE", "FF"
    >>

Hex2(v) == IF v.some THEN HexPairs[v.v + 1] ELSE "XX"
Asc1(v) ==
    IF v.some /\ is_printable_ascii(v.v) THEN AsciiChars[v.v - 32] ELSE "."

\* files is a sequence of [name, data] records.  A line of text is held by
\* its parts: the digits of the offset prefix and, for every displayed file,
\* the hex pairs and the glyphs of its column; the delimiters between the
\* parts ("0x", the spaces and the pipes) are the same in every line.
render_line(offset, files, block, terse) ==
    LET file_count == Len(files)
        value(f, i) == get(files[f].data, offset + (i - 1))
        classes == [i \in 1..block |->
                       classify_position([f \in 1..file_count |-> value(f, i)])]
        count == IF terse THEN 1 ELSE file_count
        prefix == FormatHex(offset, 8)
    IN  [raw |-> [prefix |-> prefix,
                  columns |-> [f \in 1..count |->
                      [hex |-> [i \in 1..block |-> Hex2(value(f, i))],
                       ascii |-> [i \in 1..block |-> Asc1(value(f, i))]]]],
         display |-> [prefix |-> prefix,
                      columns |-> [f \in 1..count |->
                          [hex |-> [i \in 1..block |->
                                       to_colored_hex(classes[i], Hex2(value(f, i)))],
                           ascii |-> [i \in 1..block |->
                                       to_colored_hex(classes[i], Asc1(value(f, i)))]]]],
         classes |-> classes,
         has_red |-> HasClass(classes, "Red"),
         has_green |-> HasClass(classes, "Green"),
         has_blue |-> HasClass(classes, "Blue")]

should_show_line(line, o) ==
    should_display_flags(line.has_red, line.has_green, line.has_blue, o)

\* the header: label, then one name column per displayed file, each padded
\* to the width block * 4 + 2.  The multiplication overflows for a large
\* block: with overflow checks it panics, without them the width wraps, and
\* padding to a width beyond ISIZE_MAX exceeds the capacity of a String.
render_header(file_names, block, terse, overflow_checks) ==
    LET exact == (block * 4) + 2
        header_width == exact % (USIZE_MAX + 1)
        count == IF terse THEN 1 ELSE Len(file_names)
    IN  IF (exact > USIZE_MAX /\ overflow_checks) \/ header_width + 15 > ISIZE_MAX
        THEN [panic |-> TRUE]
        ELSE [panic |-> FALSE,
              kind |-> "header",
              label |-> "OFFSET      ",
              names |-> [i \in 1..count |-> file_names[i]],
              width |-> header_width]

\* ------------------------------------------------------------ stream driver
\* pc            where the program is: "idle" before a call, "scan" in the loop
\*               of run, "returned", "panicked", "api" after a classify call
\* call          the function called and its arguments
\* ret           the value returned
\* opts          run's options, normalized on entry
\* max_len, offset, previous_raw, in_repeat   the locals of run
\* out           the lines written to stdout
\* trace         one record per loop iteration done: the line's offset,
\*               classes and flags, and what the iteration did with the line
VARIABLES pc, call, ret, opts, max_len, offset, previous_raw,
          in_repeat, out, trace

vars == <<pc, call, ret, opts, max_len, offset, previous_raw,
          in_repeat, out, trace>>

DefaultOptions ==
    [block |-> 16, show_red |-> TRUE, show_green |-> TRUE, show_blue |-> TRUE,
     terse |-> FALSE, collapse_repeats |-> FALSE]

RECURSIVE MaxOf(_)
MaxOf(lens) ==
    IF lens = <<>> THEN 0
    ELSE LET m == MaxOf(Tail(lens)) IN IF Head(lens) > m THEN Head(lens) ELSE m

NoInputs == "Err(No inputs provided)"

\* early_return testing the buffer list before the quiet flag
early_return_inputs_first(quiet, inputs) ==
    IF inputs = <<>> THEN NoInputs
    ELSE IF quiet THEN "Ok"
    ELSE "none"

\* the early returns of run: "Ok" when quiet, the error when there is no
\* input, "none" when run goes on
early_return(quiet, inputs) ==
    IF quiet THEN "Ok"
    ELSE IF inputs = <<>> THEN NoInputs
    ELSE "none"

\* normalize forgetting to select the blue filter
normalize_forgets_blue(o) ==
    LET o1 == IF o.block = 0 THEN [o EXCEPT !.block = 16] ELSE o
    IN  IF ~o1.show_red /\ ~o1.show_green /\ ~o1.show_blue
        THEN [o1 EXCEPT !.show_red = TRUE, !.show_green = TRUE]
        ELSE o1

\* block 0 becomes 16; no filter selected becomes every filter selected
normalize(o) ==
    LET o1 == IF o.block = 0 THEN [o EXCEPT !.block = 16] ELSE o
    IN  IF ~o1.show_red /\ ~o1.show_green /\ ~o1.show_blue
        THEN [o1 EXCEPT !.show_red = TRUE, !.show_green = TRUE, !.show_blue = TRUE]
        ELSE o1

\* run, from its entry to the first test of the loop condition.
\* overflow_checks: whether the build panics on arithmetic overflow.
run_enter(quiet, inputs, o, overflow_checks) ==
    LET early == early_return(quiet, inputs)
        o2 == normalize(o)
        mlen == MaxOf([f \in 1..Len(inputs) |-> Len(inputs[f].data)])
        file_names == [f \in 1..Len(inputs) |-> inputs[f].name]
        header == render_header(file_names, o2.block, o2.terse, overflow_checks)
    IN  IF early # "none"
        THEN [pc |-> "returned", ret |-> early, opts |-> o, max_len |-> 0, out |-> <<>>]
        ELSE IF header.panic
        THEN [pc |-> "panicked", ret |-> "none", opts |-> o2, max_len |-> mlen,
              out |-> <<>>]
        ELSE [pc |-> "scan", ret |-> "none", opts |-> o2, max_len |-> mlen,
              out |-> <<header>>]

DataLine(line) == [kind |-> "data", display |-> line.display]
Marker == [kind |-> "marker"]

\* loop_body forgetting the previous line when it skips a hidden line
loop_body_hidden_resets(inputs, o, S) ==
    IF o.block > ISIZE_MAX
    THEN [S EXCEPT !.pc = "panicked"]
    ELSE
    LET line == render_line(S.offset, inputs, o.block, o.terse)
        next == saturating_add(S.offset, o.block)
        entry(outcome) == [offset |-> S.offset, classes |-> line.classes,
                           outcome |-> outcome, had_previous |-> S.previous_raw.some,
                           flags |-> <<line.has_red, line.has_green, line.has_blue>>]
    IN  IF ~should_show_line(line, o)
        THEN [S EXCEPT !.offset = next, !.previous_raw = NoString,
                       !.trace = Append(@, entry("hidden"))]
        ELSE IF o.collapse_repeats /\ S.previous_raw.some /\ S.previous_raw.v = line.raw
        THEN IF ~S.in_repeat
             THEN [S EXCEPT !.out = Append(@, Marker), !.in_repeat = TRUE,
                            !.offset = next, !.trace = Append(@, entry("marker"))]
             ELSE [S EXCEPT !.offset = next, !.trace = Append(@, entry("folded"))]
        ELSE [S EXCEPT !.in_repeat = FALSE, !.previous_raw = SomeString(line.raw),
                       !.out = Append(@, DataLine(line)), !.offset = next,
                       !.trace = Append(@, entry("printed"))]

\* one iteration of the while loop of run; S holds the loop's variables
loop_body(inputs, o, S) ==
    IF o.block > ISIZE_MAX
    THEN [S EXCEPT !.pc = "panicked"]
    ELSE
    LET line == render_line(S.offset, inputs, o.block, o.terse)
        next == saturating_add(S.offset, o.block)
        entry(outcome) == [offset |-> S.offset, classes |-> line.classes,
                           outcome |-> outcome, had_previous |-> S.previous_raw.some,
                           flags |-> <<line.has_red, line.has_green, line.has_blue>>]
    IN  IF ~should_show_line(line, o)
        THEN [S EXCEPT !.offset = next, !.trace = Append(@, entry("hidden"))]
        ELSE IF o.collapse_repeats /\ S.previous_raw.some /\ S.previous_raw.v = line.raw
        THEN IF ~S.in_repeat
             THEN [S EXCEPT !.out = Append(@, Marker), !.in_repeat = TRUE,
                            !.offset = next, !.trace = Append(@, entry("marker"))]
             ELSE [S EXCEPT !.offset = next, !.trace = Append(@, entry("folded"))]
        ELSE [S EXCEPT !.in_repeat = FALSE, !.previous_raw = SomeString(line.raw),
                       !.out = Append(@, DataLine(line)), !.offset = next,
                       !.trace = Append(@, entry("printed"))]

\* the loop condition taking the longest buffer's length as a valid offset
loop_continues_inclusive(off, mlen) == off <= mlen

\* the condition of the while loop of run
loop_continues(off, mlen) == off < mlen

LoopState ==
    [pc |-> pc, offset |-> offset, previous_raw |-> previous_raw,
     in_repeat |-> in_repeat, out |-> out, trace |-> trace]

\* ------------------------------------------------------------------ inputs
Buffers(n) == UNION {[1..k -> ByteSet] : k \in 0..n}

\* the lists of k buffers holding at most t bytes in total
RECURSIVE BufferLists(_, _)
BufferLists(k, t) ==
    IF k = 0 THEN {<<>>}
    ELSE UNION {{<<b>> \o r : r \in BufferLists(k - 1, t - Len(b))} : b \in Buffers(t)}

\* every list of at most MaxFiles buffers holding at most MaxTotal bytes, and
\* every single buffer of RepeatLen bytes
InputSet ==
    UNION {BufferLists(k, MaxTotal) : k \in 0..MaxFiles}
    \cup {<<b>> : b \in [1..RepeatLen -> ByteSet]}

Named(datas) == [f \in 1..Len(datas) |-> [name |-> FileNames[f], data |-> datas[f]]]

OptionSet ==
    [block : BlockSet, show_red : BOOLEAN, show_green : BOOLEAN, show_blue : BOOLEAN,
     terse : BOOLEAN, collapse_repeats : BOOLEAN]

OptByte == {None} \cup {Some(b) : b \in ProbeBytes}
ValueLists == UNION {[1..n -> OptByte] : n \in 1..MaxFiles}

\* ------------------------------------------------------------------ actions
Init ==
    /\ pc = "idle"
    /\ call = [fn |-> "none"]
    /\ ret = "none"
    /\ opts = DefaultOptions
    /\ max_len = 0
    /\ offset = 0
    /\ previous_raw = NoString
    /\ in_repeat = FALSE
    /\ out = <<>>
    /\ trace = <<>>

Run ==
    /\ pc = "idle"
    /\ \E quiet \in BOOLEAN, datas \in InputSet, o \in OptionSet,
          overflow_checks \in BOOLEAN :
          \E e \in {run_enter(quiet, Named(datas), o, overflow_checks)} :
              /\ call' = [fn |-> "run", quiet |-> quiet, inputs |-> Named(datas),
                          opts |-> o]
              /\ pc' = e.pc
              /\ ret' = e.ret
              /\ opts' = e.opts
              /\ max_len' = e.max_len
              /\ out' = e.out
    /\ offset' = 0
    /\ previous_raw' = NoString
    /\ in_repeat' = FALSE
    /\ trace' = <<>>

LoopIteration ==
    /\ pc = "scan"
    /\ loop_continues(offset, max_len)
    /\ \E n \in {loop_body(call.inputs, opts, LoopState)} :
           /\ pc' = n.pc
           /\ offset' = n.offset
           /\ previous_raw' = n.previous_raw
           /\ in_repeat' = n.in_repeat
           /\ out' = n.out
           /\ trace' = n.trace
    /\ UNCHANGED <<call, ret, opts, max_len>>

LoopExit ==
    /\ pc = "scan"
    /\ ~loop_continues(offset, max_len)
    /\ pc' = "returned"
    /\ ret' = "Ok"
    /\ UNCHANGED <<call, opts, max_len, offset, previous_raw, in_repeat,
                   out, trace>>

ClassifyPosition ==
    /\ pc = "idle"
    /\ \E values \in ValueLists :
          /\ call' = [fn |-> "classify_position", values |-> values]
          /\ ret' = classify_position(values)
    /\ pc' = "api"
    /\ UNCHANGED <<opts, max_len, offset, previous_raw, in_repeat, out, trace>>

ClassifyBlock ==
    /\ pc = "idle"
    /\ \E files \in BufferLists(2, MaxTotal), off \in 0..MaxTotal, block \in 0..MaxBlock :
          /\ call' = [fn |-> "classify_block", files |-> files, offset |-> off,
                      block |-> block]
          /\ ret' = classify_block(files, off, block)
    /\ pc' = "api"
    /\ UNCHANGED <<opts, max_len, offset, previous_raw, in_repeat, out, trace>>

Next == Run \/ LoopIteration \/ LoopExit \/ ClassifyPosition \/ ClassifyBlock

Spec == Init /\ [][Next]_vars

\* run as a function of its arguments: the state in which it ends
RECURSIVE run_loop(_, _, _, _)
run_loop(inputs, o, mlen, S) ==
    IF S.pc # "scan" THEN S
    ELSE IF loop_continues(S.offset, mlen) THEN run_loop(inputs, o, mlen, loop_body(inputs, o, S))
    ELSE [S EXCEPT !.pc = "returned"]

run_output(quiet, inputs, o, overflow_checks) ==
    LET e == run_enter(quiet, inputs, o, overflow_checks)
    IN  run_loop(inputs, e.opts, e.max_len,
                 [pc |-> e.pc, offset |-> 0, previous_raw |-> NoString,
                  in_repeat |-> FALSE, out |-> e.out, trace |-> <<>>]).out

\* ================================================================= claims
InRun == call.fn = "run"
RunEnded == InRun /\ pc \in {"returned", "panicked"}
NFiles == Len(call.inputs)
DataOf(f) == call.inputs[f].data

\* the number of distinct values at byte position p, absent being one value
DistinctAt(p) ==
    Cardinality({IF p < Len(DataOf(f)) THEN DataOf(f)[p + 1] ELSE -1 : f \in 1..NFiles})
ExpectedClass(p) ==
    IF DistinctAt(p) <= 1 THEN "Green"
    ELSE IF DistinctAt(p) = NFiles THEN "Red" ELSE "Blue"
LineHas(o, c) == \E p \in o..(o + opts.block - 1) : ExpectedClass(p) = c
ExpectedShown(o) ==
    \/ opts.show_red /\ LineHas(o, "Red")
    \/ opts.show_green /\ LineHas(o, "Green")
    \/ opts.show_blue /\ LineHas(o, "Blue")

HexVal(ch) == CHOOSE d \in 0..15 : HexChars[d + 1] = ch
RECURSIVE ParseHex(_)
ParseHex(digits) ==
    IF digits = <<>> THEN 0
    ELSE 16 * ParseHex(SubSeq(digits, 1, Len(digits) - 1)) + HexVal(digits[Len(digits)])
\* the offset a data line states in its prefix
OffsetOf(l) == ParseHex(l.display.prefix)
DataOffsets == [j \in {i \in 1..Len(out) : out[i].kind = "data"} |-> OffsetOf(out[j])]

\* C1: classify_position returns Green iff at most one distinct value, Red iff
\* at least two distinct values and as many as there are values, Blue in
\* every other case; a single value is always Green.
C1_ClassifyPosition ==
    (pc = "api" /\ call.fn = "classify_position") =>
        LET n == Len(call.values)
            d == Cardinality({call.values[i] : i \in 1..n})
        IN  /\ ret \in {"Green", "Red", "Blue"}
            /\ (ret = "Green") <=> (d <= 1)
            /\ (ret = "Red") <=> (d >= 2 /\ d = n)
            /\ (ret = "Blue") <=> (d >= 2 /\ d # n)
            /\ (n = 1) => (ret = "Green")

C1_Witness ==
    /\ pc = "api" /\ call.fn = "classify_position"
    /\ Len(call.values) = 3 /\ ret = "Blue"
    /\ \E i \in 1..3 : ~call.values[i].some

\* the bytes a line at offset o displays: one row per displayed buffer
LineContent(o) ==
    [f \in 1..(IF opts.terse THEN 1 ELSE NFiles) |->
        [i \in 1..opts.block |->
            IF o + (i - 1) < Len(DataOf(f)) THEN DataOf(f)[o + i] ELSE -1]]
Shown(k) == trace[k].outcome # "hidden"
AllAbsent(p) == \A f \in 1..NFiles : p >= Len(DataOf(f))

\* C2: with collapse_repeats, three consecutive shown lines of identical
\* content followed by a shown line of different content are emitted as one
\* data line, one marker line, then the differing line; the output never
\* holds two consecutive marker lines.
C2_CollapseRepeats ==
    (InRun /\ pc = "returned" /\ opts.collapse_repeats) =>
        /\ \A k \in 1..(Len(trace) - 3) :
              ( /\ \A m \in k..(k + 3) : Shown(m)
                /\ LineContent(trace[k + 1].offset) = LineContent(trace[k].offset)
                /\ LineContent(trace[k + 2].offset) = LineContent(trace[k].offset)
                /\ LineContent(trace[k + 3].offset) # LineContent(trace[k].offset) )
              => \E j \in 1..(Len(out) - 2) :
                    /\ out[j].kind = "data"
                    /\ LineContent(OffsetOf(out[j])) = LineContent(trace[k].offset)
                    /\ out[j + 1].kind = "marker"
                    /\ out[j + 2].kind = "data"
                    /\ OffsetOf(out[j + 2]) = trace[k + 3].offset
        /\ \A j \in 1..(Len(out) - 1) :
              ~(out[j].kind = "marker" /\ out[j + 1].kind = "marker")

\* C3 as stated: with an empty buffer list run returns the error and writes
\* nothing, whatever the quiet flag and the options are.
C3_Original ==
    (RunEnded /\ call.inputs = <<>>) => (ret = NoInputs /\ out = <<>>)

\* C3: with an empty buffer list run writes nothing, not even the header; it
\* returns the error "No inputs provided" when quiet is false and success
\* when quiet is true, whatever the options are.
C3_EmptyInputs ==
    (InRun /\ call.inputs = <<>>) =>
        /\ pc = "returned"
        /\ out = <<>>
        /\ ret = (IF call.quiet THEN "Ok" ELSE NoInputs)

C3_Witness ==
    /\ RunEnded /\ call.inputs = <<>> /\ ~call.quiet
    /\ ret = NoInputs /\ out = <<>>
    /\ call.opts.block = 0

\* C4: a visited line is shown (printed, or folded into a collapse run) iff
\* an enabled filter matches a class the line holds; a line that is not shown
\* leaves no data line.
C4_FilterPolicy ==
    InRun =>
        /\ \A k \in 1..Len(trace) :
              /\ trace[k].flags = <<LineHas(trace[k].offset, "Red"),
                                    LineHas(trace[k].offset, "Green"),
                                    LineHas(trace[k].offset, "Blue")>>
              /\ Shown(k) <=> ExpectedShown(trace[k].offset)
              /\ (trace[k].outcome = "printed")
                    <=> (\E j \in DOMAIN DataOffsets : DataOffsets[j] = trace[k].offset)
        /\ Cardinality({j \in 1..Len(out) : out[j].kind = "marker"})
              = Cardinality({k \in 1..Len(trace) : trace[k].outcome = "marker"})

C4_Witness ==
    /\ InRun /\ pc = "returned"
    /\ \E k \in 1..Len(trace) : ~Shown(k) /\ trace[k].flags[2]
    /\ \E k \in 1..Len(trace) : trace[k].outcome = "printed" /\ trace[k].flags[1]

NoFilter(o) == ~o.show_red /\ ~o.show_green /\ ~o.show_blue
AllFilters(o) == [o EXCEPT !.show_red = TRUE, !.show_green = TRUE, !.show_blue = TRUE]

\* C5: run with no filter selected emits the lines run emits with every
\* filter selected, and the filter flags do not change during the scan.
C5_NoFilterIsAllFilters ==
    /\ [](  (RunEnded /\ NoFilter(call.opts)) =>
                \E overflow_checks \in BOOLEAN :
                    out = run_output(call.quiet, call.inputs, AllFilters(call.opts),
                                     overflow_checks)  )
    /\ [][pc = "scan" => opts' = opts]_vars

C5_Witness ==
    /\ RunEnded /\ pc = "returned" /\ NoFilter(call.opts)
    /\ Len(out) >= 2
    /\ \E k \in 1..Len(trace) : trace[k].flags = <<FALSE, FALSE, TRUE>>

ShorterLen == IF Len(DataOf(1)) < Len(DataOf(2)) THEN Len(DataOf(1)) ELSE Len(DataOf(2))
LongerLen == IF Len(DataOf(1)) < Len(DataOf(2)) THEN Len(DataOf(2)) ELSE Len(DataOf(1))
TailPositions == ShorterLen..(LongerLen - 1)

\* C6: with two buffers of different lengths, every position from the
\* shorter buffer's length up to the longer buffer's length is classified
\* Full-Mismatch (Red) by render_line and by classify_block, and the scan
\* leaves none of these positions out.
C6_TailIsFullMismatch ==
    /\ (InRun /\ NFiles = 2) =>
          \A k \in 1..Len(trace) : \A i \in 1..opts.block :
              (trace[k].offset + (i - 1) \in TailPositions)
                  => /\ trace[k].classes[i] = "Red"
                     /\ trace[k].flags[1]
    /\ (InRun /\ NFiles = 2 /\ pc = "returned" /\ ~call.quiet) =>
          \A p \in TailPositions : \E k \in 1..Len(trace) :
              trace[k].offset <= p /\ p < trace[k].offset + opts.block
    /\ (pc = "api" /\ call.fn = "classify_block") =>
          LET short == IF Len(call.files[1]) < Len(call.files[2])
                       THEN Len(call.files[1]) ELSE Len(call.files[2])
              long == IF Len(call.files[1]) < Len(call.files[2])
                      THEN Len(call.files[2]) ELSE Len(call.files[1])
          IN  /\ Len(ret) = call.block
              /\ \A i \in 1..call.block :
                    (call.offset + (i - 1) \in short..(long - 1)) => ret[i] = "Red"

C6_Witness ==
    /\ InRun /\ NFiles = 2 /\ pc = "returned"
    /\ ShorterLen >= 1 /\ LongerLen > ShorterLen
    /\ \A p \in TailPositions : \E k \in 1..Len(trace) :
          trace[k].offset = p /\ trace[k].classes = <<"Red">>

\* C7: the header is the first line and the only header; data lines are
\* emitted only for multiples of the block size below the longest buffer's
\* length, each at most once, in strictly ascending order of offset.
C7_AscendingOffsets ==
    InRun =>
        /\ \A j \in 1..Len(out) : (out[j].kind = "header") <=> (j = 1)
        /\ \A j \in DOMAIN DataOffsets :
              /\ DataOffsets[j] % opts.block = 0
              /\ DataOffsets[j] < max_len
        /\ \A i, j \in DOMAIN DataOffsets : (i < j) => (DataOffsets[i] < DataOffsets[j])

C7_Witness ==
    /\ InRun /\ pc = "returned" /\ opts.block = 2
    /\ Cardinality(DOMAIN DataOffsets) = 2
    /\ \E j \in DOMAIN DataOffsets : DataOffsets[j] = 2

\* C8 as stated: no position classified within a visited line is absent in
\* every buffer.
C8_Original ==
    InRun => \A k \in 1..Len(trace) : \A i \in 1..opts.block :
                ~AllAbsent(trace[k].offset + (i - 1))

\* C8: every visited line starts below the longest buffer's length, so its
\* first position has a byte in some buffer; a position of a visited line
\* that is absent in every buffer lies at or beyond the longest buffer's
\* length and is classified Full-Match (Green), which sets has_green.
C8_FirstPositionPresent ==
    InRun => \A k \in 1..Len(trace) :
        /\ ~AllAbsent(trace[k].offset)
        /\ \A i \in 1..opts.block :
              AllAbsent(trace[k].offset + (i - 1))
                  => /\ trace[k].offset + (i - 1) >= max_len
                     /\ trace[k].classes[i] = "Green"
                     /\ trace[k].flags[2]

C8_Witness ==
    /\ InRun /\ NFiles = 2
    /\ \E k \in 1..Len(trace) :
          /\ trace[k].outcome = "printed"
          /\ trace[k].classes[1] = "Red"
          /\ AllAbsent(trace[k].offset + 1)
          /\ trace[k].classes[2] = "Green"

\* C9: a step of the scan on a line the filter policy rejects emits nothing
\* and leaves previous_raw and in_repeat as they are; only the offset
\* advances, by the block size.
C9_HiddenLineFrame ==
    [][ ( /\ InRun /\ pc = "scan" /\ offset < max_len
          /\ opts.block <= ISIZE_MAX
          /\ ~ExpectedShown(offset) )
        => ( /\ out' = out
             /\ previous_raw' = previous_raw
             /\ in_repeat' = in_repeat
             /\ pc' = pc
             /\ offset' = offset + opts.block ) ]_vars

C9_Witness ==
    /\ InRun
    /\ \E k \in 1..Len(trace) : ~Shown(k) /\ trace[k].had_previous
    /\ previous_raw.some

\* C10 as stated: with a non-empty buffer list run terminates with success,
\* whatever the options are: it never stops in any other way than by
\* returning success.
C10_TerminatesWithSuccess ==
    (InRun /\ call.inputs # <<>>) =>
        /\ pc \in {"scan", "returned"}
        /\ (pc = "returned") => (ret = "Ok")

====
